---- MODULE Spec2Model ----
(***************************************************************************)
(* Deep-link authentication of the pinac-workspace Electron main process:  *)
(* the module initialisation of the main script (master key, token vault,  *)
(* IPC handlers, protocol registration, single-instance lock), the         *)
(* second-instance / open-url callbacks, parseAuthDataFromUrl, check-auth  *)
(* and logout.  Several OS processes of the application share the user     *)
(* data directory: the key file app-secret.key, the vault entries and the  *)
(* profile file user-info.json.                                            *)
(***************************************************************************)
EXTENDS Integers, Sequences, FiniteSets, TLC

\* ------------------------------------------------------------------ bounds
MaxProcs == 2       \* application launches (OS processes) in one behaviour
MaxEvents == 1      \* open-url events delivered in one behaviour
MaxPending == 1     \* fs.unlink requests in flight at the same time
MaxLen == 3         \* characters of a displayName or idToken value
MaxFetches == 2     \* get-ollama-models invocations in flight at the same time

Procs == 1..MaxProcs
NoProc == 0

\* ------------------------------------------------------------------ values
Undefined == "undefined"     \* JavaScript undefined (an omitted JSON field)
Absent == "absent"           \* the vault holds no entry of that name
None == "none"
NoKey == 0                   \* no master key: the key file does not exist


\* The secret fields, in the order the handler stores them (part_000:146-148).
TokenNames == <<"idToken", "refreshToken", "webApiKey">>
Names == {TokenNames[i] : i \in 1..Len(TokenNames)}

\* The JSON objects a callback carries: every field present, and objects
\* with other values that omit fields.
Payload(d, e, t, r, w) ==
    [displayName |-> d, email |-> e, photoUrl |-> e,
     idToken |-> t, refreshToken |-> r, webApiKey |-> w]
Payloads ==
    {Payload("a", "a", "a", "a", "a"),
     Payload("b", Undefined, "b", Undefined, Undefined),
     Payload("b", Undefined, Undefined, "b", "b")}

\* JSON texts by what JSON.parse makes of them: a SyntaxError, null, a value
\* that is no object (a number, a string, true), or an object.
JsonInvalid == [kind |-> "invalid"]
JsonNull == [kind |-> "null"]
JsonScalar == [kind |-> "scalar"]
JsonObject(fields) == [kind |-> "object", fields |-> fields]
JsonTexts == {JsonInvalid, JsonNull, JsonScalar} \cup {JsonObject(f) : f \in Payloads}

\* The value of the `data` query parameter as URLSearchParams.get returns it:
\* null (no such parameter), the empty string, or a text whose percent
\* escapes are well formed or not, around a JSON text.
NoParam == [kind |-> "noparam"]
EmptyStr == [kind |-> "empty"]
DataText(esc, json) == [kind |-> "text", escapes |-> esc, json |-> json]
DataTexts ==
    {DataText("ok", t) : t \in JsonTexts} \cup {DataText("malformed", JsonInvalid)}

\* Strings handed to the callback handler: a string that is no URI, or a URI
\* with no `data` parameter, an empty one, or one holding a data text.
NonUri == [kind |-> "nonuri"]
Uri(d) == [kind |-> "uri", data |-> d]
Uris == {Uri(d) : d \in {NoParam, EmptyStr} \cup DataTexts}
Urls == {NonUri} \cup Uris

\* The ways the application is launched: process.defaultApp and process.argv.
\* Packaged, argv is the executable and at most one argument, which the OS
\* sets to the callback URL when it starts the application for a deep link.
\* In development (electron <app path> [url]) defaultApp is set and argv
\* holds the path of the application as well, unless the development build
\* finds the application without a path argument: argv is the executable
\* alone.  Paths are strings that are no URI.
ExePath == NonUri
AppPath == NonUri
FullA == Payload("a", "a", "a", "a", "a")
LaunchUrls == {Uri(NoParam), Uri(DataText("ok", JsonObject(FullA)))}
Launches ==
    {[defaultApp |-> FALSE, argv |-> <<ExePath>>],
     [defaultApp |-> FALSE, argv |-> <<ExePath, EmptyStr>>],
     [defaultApp |-> TRUE, argv |-> <<ExePath>>],
     [defaultApp |-> TRUE, argv |-> <<ExePath, AppPath>>]}
        \cup {[defaultApp |-> FALSE, argv |-> <<ExePath, u>>] : u \in LaunchUrls}
        \cup {[defaultApp |-> TRUE, argv |-> <<ExePath, AppPath, u>>] : u \in LaunchUrls}

\* user-info.json
NoProfile == [kind |-> "nofile"]
ProfileFile(userInfo) == [kind |-> "file", userInfo |-> userInfo]

VARIABLES
    keyFile,        \* app-secret.key: NoKey or the key it holds
    vault,          \* the vault entries: name -> value, or Absent
    profile,        \* user-info.json: NoProfile or the file written
    lockHolder,     \* the process holding the single-instance lock
    protocolClient, \* processes that registered as default protocol client
    pc,             \* each process's position in the main script
    argv,           \* each process's process.argv
    defaultApp,     \* each process's process.defaultApp
    newMasterKey,   \* getPersistentMasterKey's local newMasterKey
    masterKey,      \* the main script's masterKey
    tokenManager,   \* TRUE once new SecureTokenManager(derivedKey) ran
    readyScheduled, \* TRUE once app.whenReady().then(...) was called
    mainWindow,     \* TRUE once initWindow created the window
    queue,          \* activation events emitted to the Primary, in order
    arrivals,       \* number of activation events emitted so far
    last,           \* what the latest callback handling did
    handled,        \* per launch: runs of the handler on its command line
    forwardedTo,    \* per launch: the lock holder its command line went to
    reply,          \* the latest answer of an ipcMain handler, and
                    \* whether clearAllTokens threw in it
    pendingUnlink,  \* fs.unlink requests of logout not yet completed
    loggedOut,      \* logout answered true and no idToken was stored since
    callback,       \* a callback URL, character by character, and what it carries
    handoff,        \* what the handler made of that URL
    mounted,               \* ModelSettingsProvider: its effects have run once
    selectedProviderId,    \* ModelSettingsProvider state, as in the source
    selectedModelId,
    ollamaModels,
    isLoadingOllamaModels,
    ollamaError,
    ollamaProviderModels,  \* the models updateProviderModels("ollama", ..) set
    fetches                \* fetchOllamaModels calls awaiting their answer

vars == <<keyFile, vault, profile, lockHolder, protocolClient, pc, argv,
          defaultApp, newMasterKey, masterKey, tokenManager, readyScheduled,
          mainWindow, queue, arrivals, last, handled, forwardedTo, reply,
          pendingUnlink, loggedOut, callback, handoff, mounted,
          selectedProviderId, selectedModelId, ollamaModels,
          isLoadingOllamaModels, ollamaError, ollamaProviderModels, fetches>>

fileVars == <<keyFile, vault, profile>>
procVars == <<pc, argv, defaultApp, newMasterKey, masterKey, tokenManager,
              readyScheduled, mainWindow>>
ipcVars == <<reply, pendingUnlink, loggedOut>>
eventVars == <<queue, arrivals, last, handled, forwardedTo>>
codecVars == <<callback, handoff>>
\* The variables no action of the main script, of an event handler or of an
\* ipcMain handler changes.
selectionVars == <<selectedProviderId, selectedModelId>>
ollamaVars == <<ollamaModels, isLoadingOllamaModels, ollamaError,
                ollamaProviderModels>>
rendererVars == <<mounted, selectionVars, ollamaVars, fetches>>
otherVars == <<codecVars, rendererVars>>

\* ------------------------------------------------- SecureTokenManager (vault)
\* hasToken(name): an existence check.
HasToken(v, name) == v[name] # Absent

\* storeToken(name, value): the entry of that name is overwritten; ok = FALSE
\* is the call throwing (a write failure, or a value it cannot encrypt), which
\* leaves the entry as it was.
StoreToken(v, name, value, ok) ==
    IF ok THEN [v EXCEPT ![name] = value] ELSE v

\* clearAllTokens(): every entry is deleted, except those whose deletion
\* fails (fails), which are logged and kept.
ClearAllTokens(v, fails) ==
    [n \in Names |-> IF n \in fails THEN v[n] ELSE Absent]

EmptyVault == [n \in Names |-> Absent]

\* ---------------------------------------------------- SecureMasterKeyManager
\* String.prototype.trim on the key file's content: the file only ever holds
\* what generateMasterKey wrote, hexadecimal digits, which trim leaves alone.
Trim(content) == content

\* generateMasterKey(): crypto.randomBytes(64) in hexadecimal.  No two calls
\* return the same 64 random bytes: the key is named by the process that
\* generated it.
GenerateMasterKey(p) == p

\* ------------------------------------------------------ parseAuthDataFromUrl
\* new URL(url): throws a TypeError for a string that is no URI.
NewURL(url) == [ok |-> url.kind = "uri", value |-> url]

\* urlObj.searchParams.get("data")
SearchParamsGet(urlObj) == urlObj.data

\* JavaScript truthiness of string | null | undefined values.
Truthy(s) == s.kind \notin {"noparam", "empty", "undefined"}

\* decodeURIComponent: throws a URIError on a malformed escape sequence.
DecodeURIComponent(s) == [ok |-> s.escapes = "ok", value |-> s.json]

\* A JSON.parse whose SyntaxError is swallowed: the text that is no JSON
\* reads as a value with no fields.
JSONParseLenient(t) == [ok |-> TRUE, value |-> t]

\* JSON.parse: throws a SyntaxError on a text that is no JSON.
JSONParse(t) == [ok |-> t.kind # "invalid", value |-> t]

\* authData.<field>: a TypeError when authData is null (handled by the
\* caller), undefined for a value that is no object or an omitted field.
Field(authData, f) ==
    IF authData.kind = "object" THEN authData.fields[f] ELSE Undefined

\* The userInfo object of part_000:136-141.  JSON.stringify leaves out the
\* keys whose value is undefined: such a key reads as Undefined here.
UserInfo(authData) ==
    [displayName |-> Field(authData, "displayName"),
     email |-> Field(authData, "email"),
     bio |-> "",
     photoURL |-> Field(authData, "photoUrl")]

\* The try block with the values of the first two secrets exchanged: the
\* idToken entry receives authData.refreshToken and the other way round.
SwappedField(authData, name) ==
    Field(authData, IF name = "idToken" THEN "refreshToken"
                    ELSE IF name = "refreshToken" THEN "idToken" ELSE name)
RECURSIVE StoreTokensSwapped(_, _, _, _)
StoreTokensSwapped(v, authData, ok, i) ==
    IF i > Len(TokenNames)
    THEN [vault |-> v, attempts |-> <<>>, caught |-> FALSE]
    ELSE LET name == TokenNames[i]
             value == SwappedField(authData, name)
             call == [name |-> name, value |-> value, ok |-> ok[name]]
         IN  IF ~ok[name]
             THEN [vault |-> v, attempts |-> <<call>>, caught |-> TRUE]
             ELSE LET rest == StoreTokensSwapped([v EXCEPT ![name] = value],
                                                 authData, ok, i + 1)
                  IN  [rest EXCEPT !.attempts = <<call>> \o @]

\* The try block of part_000:145-152 from the i-th storeToken call on:
\* the calls run in order and the first one that throws ends the block.
\* ok[name] tells whether the store of that name succeeds when attempted.
RECURSIVE StoreTokens(_, _, _, _)
StoreTokens(v, authData, ok, i) ==
    IF i > Len(TokenNames)
    THEN [vault |-> v, attempts |-> <<>>, caught |-> FALSE]
    ELSE LET name == TokenNames[i]
             value == Field(authData, name)
             call == [name |-> name, value |-> value, ok |-> ok[name]]
         IN  IF ~ok[name]
             THEN [vault |-> v, attempts |-> <<call>>, caught |-> TRUE]
             ELSE LET rest == StoreTokens(StoreToken(v, name, value, TRUE),
                                          authData, ok, i + 1)
                  IN  [rest EXCEPT !.attempts = <<call>> \o @]

\* What one run of a callback handler leaves behind.
Outcome(prof, v, dialog, threw, reload, wrote, attempts) ==
    [profile |-> prof, vault |-> v, dialog |-> dialog, threw |-> threw,
     reload |-> reload, wroteProfile |-> wrote, attempts |-> attempts]

ShowErrorBox(prof, v) == Outcome(prof, v, TRUE, None, FALSE, FALSE, <<>>)
Throws(prof, v, error) == Outcome(prof, v, FALSE, error, FALSE, FALSE, <<>>)

\* The handler with mainWindow?.reload() placed after the try block: the
\* reload is issued whether or not a store failed.
ParseAuthDataFromUrlReloadAfterTry(url, prof, v, win, env) ==
    LET urlObj == NewURL(url) IN
    IF ~urlObj.ok THEN Throws(prof, v, "TypeError") ELSE
    LET encodedData == SearchParamsGet(urlObj.value) IN
    IF ~Truthy(encodedData) THEN ShowErrorBox(prof, v) ELSE
    LET decoded == DecodeURIComponent(encodedData) IN
    IF ~decoded.ok THEN Throws(prof, v, "URIError") ELSE
    LET parsed == JSONParse(decoded.value) IN
    IF ~parsed.ok THEN Throws(prof, v, "SyntaxError") ELSE
    LET authData == parsed.value IN
    IF authData.kind = "null" THEN Throws(prof, v, "TypeError") ELSE
    IF ~env.write THEN Throws(prof, v, "Error") ELSE
    LET userInfoJson == ProfileFile(UserInfo(authData))
        stored == StoreTokens(v, authData, env.store, 1)
    IN  Outcome(userInfoJson, stored.vault, FALSE, None,
                win, TRUE, stored.attempts)

\* parseAuthDataFromUrl(url) run on the profile file prof and the vault v, in
\* a process whose mainWindow is win; env.write tells whether writeFileSync
\* succeeds, env.store[name] whether storeToken(name, ..) does.
ParseAuthDataFromUrl(url, prof, v, win, env) ==
    LET urlObj == NewURL(url) IN
    IF ~urlObj.ok THEN Throws(prof, v, "TypeError") ELSE
    LET encodedData == SearchParamsGet(urlObj.value) IN
    IF ~Truthy(encodedData) THEN ShowErrorBox(prof, v) ELSE
    LET decoded == DecodeURIComponent(encodedData) IN
    IF ~decoded.ok THEN Throws(prof, v, "URIError") ELSE
    LET parsed == JSONParse(decoded.value) IN
    IF ~parsed.ok THEN Throws(prof, v, "SyntaxError") ELSE
    LET authData == parsed.value IN
    IF authData.kind = "null" THEN Throws(prof, v, "TypeError") ELSE
    IF ~env.write THEN Throws(prof, v, "Error") ELSE
    LET userInfoJson == ProfileFile(UserInfo(authData))
        stored == StoreTokens(v, authData, env.store, 1)
    IN  Outcome(userInfoJson, stored.vault, FALSE, None,
                ~stored.caught /\ win, TRUE, stored.attempts)

\* The failures of the file system and of the vault one handling of url can
\* meet: none when the handler does not get to fs.writeFileSync; otherwise
\* the write fails, or it succeeds and each storeToken call succeeds or not.
NoFailure == [write |-> TRUE, store |-> [n \in Names |-> TRUE]]
Envs(url) ==
    IF ParseAuthDataFromUrl(url, NoProfile, EmptyVault, FALSE, NoFailure).wroteProfile
    THEN {[NoFailure EXCEPT !.write = FALSE]}
            \cup {[write |-> TRUE, store |-> f] : f \in [Names -> BOOLEAN]}
    ELSE {NoFailure}

\* ------------------------------------- the callback URL, character by character
\* A text is a sequence of characters.  The values a callback carries are
\* made of a letter, a digit and the percent sign.
Quote == "\""
ValueChars == {"x", "4", "%"}
Values == UNION {[1..n -> ValueChars] : n \in 1..MaxLen}

KeyDisplayName == <<"d", "i", "s", "p", "l", "a", "y", "N", "a", "m", "e">>
KeyIdToken == <<"i", "d", "T", "o", "k", "e", "n">>

\* The JSON text of an object {displayName, idToken}, as JSON.stringify
\* writes it; no character of ValueChars needs a JSON escape.
JSONStringify(displayName, idToken) ==
    <<"{", Quote>> \o KeyDisplayName \o <<Quote, ":", Quote>> \o displayName
        \o <<Quote, ",", Quote>> \o KeyIdToken \o <<Quote, ":", Quote>>
        \o idToken \o <<Quote, "}">>

\* Percent escapes: the characters of a JSON text encodeURIComponent
\* escapes, and the character a %XX sequence stands for.
Reserved == {"{", "}", Quote, ":", ",", "%"}
Escape(c) ==
    CASE c = "{" -> <<"%", "7", "B">>
      [] c = "}" -> <<"%", "7", "D">>
      [] c = Quote -> <<"%", "2", "2">>
      [] c = ":" -> <<"%", "3", "A">>
      [] c = "," -> <<"%", "2", "C">>
      [] c = "%" -> <<"%", "2", "5">>
HexDigits ==
    {"0", "1", "2", "3", "4", "5", "6", "7", "8", "9",
     "A", "B", "C", "D", "E", "F", "a", "b", "c", "d", "e", "f"}
CharOfByte(h1, h2) ==
    CASE <<h1, h2>> = <<"7", "B">> -> "{"
      [] <<h1, h2>> = <<"7", "D">> -> "}"
      [] <<h1, h2>> = <<"2", "2">> -> Quote
      [] <<h1, h2>> = <<"3", "A">> -> ":"
      [] <<h1, h2>> = <<"2", "C">> -> ","
      [] <<h1, h2>> = <<"2", "5">> -> "%"
      [] <<h1, h2>> = <<"4", "4">> -> "D"
      [] OTHER -> "?"

\* encodeURIComponent, by which the sender builds the `data` parameter.
RECURSIVE EncodeURIComponent(_)
EncodeURIComponent(text) ==
    IF text = <<>> THEN <<>>
    ELSE (IF Head(text) \in Reserved THEN Escape(Head(text)) ELSE <<Head(text)>>)
            \o EncodeURIComponent(Tail(text))

\* TRUE when text starts with a well-formed %XX sequence.
IsEscape(text) ==
    /\ Len(text) >= 3
    /\ text[1] = "%"
    /\ text[2] \in HexDigits
    /\ text[3] \in HexDigits

\* urlObj.searchParams.get("data") on the raw value of the parameter:
\* URLSearchParams percent-decodes the value, leaving a percent sign that
\* starts no %XX sequence as it is.
RECURSIVE SearchParamsGetText(_)
SearchParamsGetText(raw) ==
    IF raw = <<>> THEN <<>>
    ELSE IF IsEscape(raw)
         THEN <<CharOfByte(raw[2], raw[3])>>
                \o SearchParamsGetText(SubSeq(raw, 4, Len(raw)))
         ELSE <<Head(raw)>> \o SearchParamsGetText(Tail(raw))

\* decodeURIComponent on a text: every %XX sequence is decoded, and a percent
\* sign that starts none is a URIError.
RECURSIVE DecodeURIComponentText(_)
DecodeURIComponentText(text) ==
    IF text = <<>> THEN [ok |-> TRUE, value |-> <<>>]
    ELSE IF Head(text) = "%"
         THEN IF IsEscape(text)
              THEN LET rest == DecodeURIComponentText(SubSeq(text, 4, Len(text)))
                   IN  [ok |-> rest.ok,
                        value |-> <<CharOfByte(text[2], text[3])>> \o rest.value]
              ELSE [ok |-> FALSE, value |-> <<>>]
         ELSE LET rest == DecodeURIComponentText(Tail(text))
              IN  [ok |-> rest.ok, value |-> <<Head(text)>> \o rest.value]

\* JSON.parse on the text of an object {displayName, idToken} with string
\* values: any other text is a SyntaxError here.
StartsWith(text, prefix) ==
    Len(text) >= Len(prefix) /\ SubSeq(text, 1, Len(prefix)) = prefix
Drop(text, n) == SubSeq(text, n + 1, Len(text))
RECURSIVE StringBody(_)
StringBody(text) ==
    IF text = <<>> \/ Head(text) = Quote THEN <<>>
    ELSE <<Head(text)>> \o StringBody(Tail(text))
NotJson == [ok |-> FALSE, displayName |-> <<>>, idToken |-> <<>>]
JSONParseText(text) ==
    LET open1 == <<"{", Quote>> \o KeyDisplayName \o <<Quote, ":", Quote>>
        open2 == <<Quote, ",", Quote>> \o KeyIdToken \o <<Quote, ":", Quote>>
        close == <<Quote, "}">>
    IN  IF ~StartsWith(text, open1) THEN NotJson ELSE
        LET d == StringBody(Drop(text, Len(open1)))
            rest1 == Drop(text, Len(open1) + Len(d))
        IN  IF ~StartsWith(rest1, open2) THEN NotJson ELSE
            LET t == StringBody(Drop(rest1, Len(open2)))
                rest2 == Drop(rest1, Len(open2) + Len(t))
            IN  IF rest2 # close THEN NotJson
                ELSE [ok |-> TRUE, displayName |-> d, idToken |-> t]

\* A callback URL pinac-workspace://auth?data=<raw>: what the sender put
\* into it and the raw value of its data parameter.
NoCallback == [displayName |-> <<>>, idToken |-> <<>>, data |-> <<>>]
CallbackUrl(displayName, idToken) ==
    [displayName |-> displayName, idToken |-> idToken,
     data |-> EncodeURIComponent(JSONStringify(displayName, idToken))]

\* parseAuthDataFromUrl on the characters of a callback URL: the displayName
\* written to the profile and the value handed to storeToken("idToken", ..).
NoHandoff ==
    [done |-> FALSE, dialog |-> FALSE, threw |-> None, stored |-> FALSE,
     displayName |-> <<>>, idToken |-> <<>>]
ParseAuthDataFromUrlText(data) ==
    LET encodedData == SearchParamsGetText(data) IN
    IF encodedData = <<>>
    THEN [NoHandoff EXCEPT !.done = TRUE, !.dialog = TRUE] ELSE
    LET decoded == DecodeURIComponentText(encodedData) IN
    IF ~decoded.ok
    THEN [NoHandoff EXCEPT !.done = TRUE, !.threw = "URIError"] ELSE
    LET authData == JSONParseText(decoded.value) IN
    IF ~authData.ok
    THEN [NoHandoff EXCEPT !.done = TRUE, !.threw = "SyntaxError"]
    ELSE [done |-> TRUE, dialog |-> FALSE, threw |-> None, stored |-> TRUE,
          displayName |-> authData.displayName, idToken |-> authData.idToken]

\* ------------------------------------------- ModelSettingsProvider (renderer)
\* MODEL_PROVIDERS of @/config/models: the provider ids and the models each
\* is configured with.  "ollama" is the provider whose models are fetched;
\* "cloud" stands for the providers with a fixed list.
StaticModels == [ollama |-> <<>>, cloud |-> <<"c1">>]
ProviderIds == DOMAIN StaticModels
UnknownProvider == "unknown"

\* MODEL_PROVIDERS is indexed with any string and enumerated with Object.keys
\* (LlmSettings.tsx:60, 74, 176, 192): an ordinary object, whose lookup also
\* finds the properties every object inherits.  "constructor" stands for
\* those names: MODEL_PROVIDERS["constructor"] is a function, which is truthy
\* and has no models property.
InheritedNames == {"constructor"}

\* MODEL_PROVIDERS[providerId] is truthy, the test of LlmSettings.tsx:60 and
\* 176.
Configured(providerId) ==
    providerId \in ProviderIds \/ providerId \in InheritedNames

\* Model ids: the empty string, two Ollama models and a configured one.  A
\* ModelConfig is named by its id (id, name and displayName are the same
\* string, LlmSettings.tsx:135-139).
ModelIds == {"", "m1", "m2", "c1"}

\* The answers of ipcRenderer.invoke("get-ollama-models"): a rejection, no
\* model, or a list of models.
OllamaReplies ==
    {[ok |-> FALSE, models |-> <<>>],
     [ok |-> TRUE, models |-> <<>>],
     [ok |-> TRUE, models |-> <<"m1">>],
     [ok |-> TRUE, models |-> <<"m2", "m1">>]}

\* ollamaError values: null and the two messages.
NullError == "null"
NoModelsFound == "No Ollama models found"
ConnectFailed == "Failed to connect to Ollama"

Range(seq) == {seq[i] : i \in 1..Len(seq)}
Remove(seq, i) == SubSeq(seq, 1, i - 1) \o SubSeq(seq, i + 1, Len(seq))

\* A fetchOllamaModels closure: the selection of the render that created it
\* (its useCallback dependencies, LlmSettings.tsx:160).
Closure(providerId, modelId) ==
    [selectedProviderId |-> providerId, selectedModelId |-> modelId]

\* The state before the effects of the provider ran: the useState
\* initialisers of LlmSettings.tsx:57-96.
NotMounted ==
    /\ mounted = FALSE
    /\ ollamaModels = <<>>
    /\ isLoadingOllamaModels = FALSE
    /\ ollamaError = NullError
    /\ ollamaProviderModels = <<>>
    /\ fetches = <<>>

\* The renderer as the main process's specifications leave it.
RendererIdle ==
    /\ NotMounted
    /\ selectedProviderId = "ollama"
    /\ selectedModelId = ""

\* fetchOllamaModels up to its await (LlmSettings.tsx:117-122), called by the
\* closure of the selection (providerId, modelId) while pending calls wait.
FetchOllamaModels(providerId, modelId, pending) ==
    /\ isLoadingOllamaModels' = TRUE
    /\ ollamaError' = NullError
    /\ fetches' = Append(pending, Closure(providerId, modelId))

\* The useEffect of LlmSettings.tsx:167-169 after a render: it calls
\* fetchOllamaModels when the selection, and with it the callback, changed.
FetchEffect(providerId, modelId, pending) ==
    IF <<providerId, modelId>> # <<selectedProviderId, selectedModelId>>
    THEN FetchOllamaModels(providerId, modelId, pending)
    ELSE /\ fetches' = pending
         /\ UNCHANGED <<isLoadingOllamaModels, ollamaError>>

\* The first render: the mount effect fetches the models.
Mount ==
    /\ ~mounted
    /\ mounted' = TRUE
    /\ FetchOllamaModels(selectedProviderId, selectedModelId, fetches)
    /\ UNCHANGED <<fileVars, lockHolder, protocolClient, procVars, eventVars,
                   ipcVars, codecVars, selectionVars, ollamaModels,
                   ollamaProviderModels>>

\* refreshOllamaModels (LlmSettings.tsx:162-164)
RefreshOllamaModels ==
    /\ mounted
    /\ Len(fetches) < MaxFetches
    /\ FetchOllamaModels(selectedProviderId, selectedModelId, fetches)
    /\ UNCHANGED <<fileVars, lockHolder, protocolClient, procVars, eventVars,
                   ipcVars, codecVars, mounted, selectionVars, ollamaModels,
                   ollamaProviderModels>>

\* The i-th pending fetchOllamaModels call gets its answer and runs to its
\* end (LlmSettings.tsx:124-159); when it changes the selected model, the
\* effect fetches again.
FetchCompletes(i) ==
    LET f == fetches[i]
        pending == Remove(fetches, i)
    IN  \E r \in OllamaReplies :
          IF ~r.ok \/ r.models = <<>>
          THEN /\ ollamaError' = IF r.ok THEN NoModelsFound ELSE ConnectFailed
               /\ ollamaModels' = <<>>
               /\ ollamaProviderModels' = <<>>
               /\ isLoadingOllamaModels' = FALSE
               /\ fetches' = pending
               /\ UNCHANGED selectionVars
          ELSE LET modelId ==
                     IF f.selectedProviderId = "ollama"
                            /\ f.selectedModelId \notin Range(r.models)
                     THEN r.models[1] ELSE selectedModelId
               IN  /\ ollamaModels' = r.models
                   /\ ollamaProviderModels' = r.models
                   /\ selectedModelId' = modelId
                   /\ UNCHANGED selectedProviderId
                   /\ IF modelId # selectedModelId
                      THEN FetchOllamaModels(selectedProviderId, modelId, pending)
                      ELSE /\ isLoadingOllamaModels' = FALSE
                           /\ fetches' = pending
                           /\ UNCHANGED ollamaError

FetchOllamaModelsCompletes ==
    /\ \E i \in 1..Len(fetches) : FetchCompletes(i)
    /\ UNCHANGED <<fileVars, lockHolder, protocolClient, procVars, eventVars,
                   ipcVars, codecVars, mounted>>

\* The first model of a provider as setSelectedProvider reads it, "" when it
\* has none (LlmSettings.tsx:183-198).
FirstModel(providerId) ==
    LET models == IF providerId = "ollama" THEN ollamaModels
                  ELSE StaticModels[providerId]
    IN  IF models # <<>> THEN models[1] ELSE ""

\* getAvailableModels (LlmSettings.tsx:260-268)
GetAvailableModels(providerId) ==
    IF providerId = "ollama" THEN ollamaModels
    ELSE IF providerId \in ProviderIds THEN StaticModels[providerId]
    ELSE <<>>

\* setSelectedProvider (LlmSettings.tsx:174-201).  For a name the lookup
\* finds on the prototype the guard passes and the provider update is queued
\* (line 180); MODEL_PROVIDERS[providerId].models is then undefined and
\* reading its element 0 (line 192) throws before any model update.
SetSelectedProvider(providerId) ==
    /\ mounted
    /\ Len(fetches) < MaxFetches
    /\ IF ~Configured(providerId)
       THEN UNCHANGED <<selectionVars, isLoadingOllamaModels, ollamaError,
                        fetches>>
       ELSE IF providerId \notin ProviderIds
       THEN /\ selectedProviderId' = providerId
            /\ UNCHANGED selectedModelId
            /\ FetchEffect(providerId, selectedModelId, fetches)
       ELSE /\ selectedProviderId' = providerId
            /\ selectedModelId' = FirstModel(providerId)
            /\ FetchEffect(providerId, FirstModel(providerId), fetches)
    /\ UNCHANGED <<fileVars, lockHolder, protocolClient, procVars, eventVars,
                   ipcVars, codecVars, mounted, ollamaModels,
                   ollamaProviderModels>>

\* setSelectedModel (LlmSettings.tsx:203-205)
SetSelectedModel(modelId) ==
    /\ mounted
    /\ Len(fetches) < MaxFetches
    /\ selectedModelId' = modelId
    /\ FetchEffect(selectedProviderId, modelId, fetches)
    /\ UNCHANGED <<fileVars, lockHolder, protocolClient, procVars, eventVars,
                   ipcVars, codecVars, mounted, selectedProviderId,
                   ollamaModels, ollamaProviderModels>>

\* getCurrentModelName (LlmSettings.tsx:231-254); provider.models.find throws
\* when the provider found has no models property.
GetCurrentModelName ==
    IF selectedProviderId = "ollama"
    THEN IF isLoadingOllamaModels THEN "Loading..."
         ELSE IF ollamaError # NullError THEN "Error loading models"
         ELSE IF ollamaModels = <<>> THEN "No models found"
         ELSE IF selectedModelId \in Range(ollamaModels) /\ selectedModelId # ""
              THEN selectedModelId ELSE "Select a model"
    ELSE IF selectedProviderId \notin ProviderIds THEN "TypeError"
    ELSE IF selectedModelId \in Range(StaticModels[selectedProviderId])
              /\ selectedModelId # ""
         THEN selectedModelId ELSE "Select a model"

\* ------------------------------------------------------------------- state
NoOutcome ==
    [seq |-> 0, by |-> NoProc, via |-> None, arg |-> NonUri, dialog |-> FALSE,
     threw |-> None, reload |-> FALSE, wroteProfile |-> FALSE, attempts |-> <<>>,
     steps |-> <<>>]
NoReply == [op |-> None, value |-> FALSE, vaultThrew |-> FALSE]

\* No process of the application was started yet.
NothingStarted ==
    /\ keyFile = NoKey
    /\ vault = EmptyVault
    /\ profile = NoProfile
    /\ lockHolder = NoProc
    /\ protocolClient = {}
    /\ pc = [p \in Procs |-> "notStarted"]
    /\ argv = [p \in Procs |-> <<>>]
    /\ defaultApp = [p \in Procs |-> FALSE]
    /\ newMasterKey = [p \in Procs |-> NoKey]
    /\ masterKey = [p \in Procs |-> NoKey]
    /\ tokenManager = [p \in Procs |-> FALSE]
    /\ readyScheduled = [p \in Procs |-> FALSE]
    /\ mainWindow = [p \in Procs |-> FALSE]
    /\ queue = <<>>
    /\ arrivals = 0
    /\ last = NoOutcome
    /\ handled = [p \in Procs |-> 0]
    /\ forwardedTo = [p \in Procs |-> NoProc]
    /\ reply = NoReply
    /\ pendingUnlink = 0
    /\ loggedOut = FALSE

Init ==
    /\ NothingStarted
    /\ callback = NoCallback
    /\ handoff = NoHandoff
    /\ RendererIdle

\* ------------------------------------------------- main script, in order
\* The OS starts a process of the application; the main script runs up to
\* the Authentication section (part_000:1-61).  Launches are numbered in the
\* order they happen.
Launch(p) ==
    /\ pc[p] = "notStarted"
    /\ \A q \in Procs : q < p => pc[q] # "notStarted"
    /\ \E l \in Launches :
        /\ argv' = [argv EXCEPT ![p] = l.argv]
        /\ defaultApp' = [defaultApp EXCEPT ![p] = l.defaultApp]
    /\ pc' = [pc EXCEPT ![p] = "existsSync"]
    /\ UNCHANGED <<otherVars, fileVars, lockHolder, protocolClient, newMasterKey,
                   masterKey, tokenManager, readyScheduled, mainWindow,
                   eventVars, ipcVars>>

\* getPersistentMasterKey: fs.existsSync(keyFilePath)  (part_001:18)
ExistsSync(p) ==
    /\ pc[p] = "existsSync"
    /\ pc' = [pc EXCEPT ![p] = IF keyFile # NoKey THEN "readFileSync"
                                                  ELSE "generate"]
    /\ UNCHANGED <<otherVars, fileVars, lockHolder, protocolClient, argv, defaultApp,
                   newMasterKey, masterKey, tokenManager, readyScheduled,
                   mainWindow, eventVars, ipcVars>>

\* getPersistentMasterKey: return fs.readFileSync(..).trim()  (part_001:19),
\* the value assigned to masterKey (part_000:62).
ReadFileSync(p) ==
    /\ pc[p] = "readFileSync"
    /\ masterKey' = [masterKey EXCEPT ![p] = Trim(keyFile)]
    /\ pc' = [pc EXCEPT ![p] = "initAuth"]
    /\ UNCHANGED <<otherVars, fileVars, lockHolder, protocolClient, argv, defaultApp,
                   newMasterKey, tokenManager, readyScheduled, mainWindow,
                   eventVars, ipcVars>>

\* getPersistentMasterKey: generateMasterKey() and mkdirSync  (part_001:22-23)
Generate(p) ==
    /\ pc[p] = "generate"
    /\ newMasterKey' = [newMasterKey EXCEPT ![p] = GenerateMasterKey(p)]
    /\ pc' = [pc EXCEPT ![p] = "writeFileSync"]
    /\ UNCHANGED <<otherVars, fileVars, lockHolder, protocolClient, argv, defaultApp,
                   masterKey, tokenManager, readyScheduled, mainWindow,
                   eventVars, ipcVars>>

\* getPersistentMasterKey: fs.writeFileSync(keyFilePath, newMasterKey) and
\* return newMasterKey  (part_001:24-29); the local newMasterKey ends with
\* the call.
WriteFileSync(p) ==
    /\ pc[p] = "writeFileSync"
    /\ keyFile' = newMasterKey[p]
    /\ masterKey' = [masterKey EXCEPT ![p] = newMasterKey[p]]
    /\ newMasterKey' = [newMasterKey EXCEPT ![p] = NoKey]
    /\ pc' = [pc EXCEPT ![p] = "initAuth"]
    /\ UNCHANGED <<otherVars, vault, profile, lockHolder, protocolClient, argv,
                   defaultApp, tokenManager, readyScheduled, mainWindow,
                   eventVars, ipcVars>>

\* The catch block without its throw: the failure is logged and the call
\* returns undefined, with which the main script goes on.
KeyStorageErrorSwallowed(p) ==
    /\ pc[p] \in {"readFileSync", "generate", "writeFileSync"}
    /\ pc' = [pc EXCEPT ![p] = "initAuth"]
    /\ UNCHANGED <<otherVars, fileVars, lockHolder, protocolClient, argv, defaultApp,
                   newMasterKey, masterKey, tokenManager, readyScheduled,
                   mainWindow, eventVars, ipcVars>>

\* getPersistentMasterKey: a file system call throws; the catch block
\* rethrows (part_001:30-33) and nothing catches it in the main script, whose
\* evaluation ends at part_000:62.
KeyStorageError(p) ==
    /\ pc[p] \in {"readFileSync", "generate", "writeFileSync"}
    /\ pc' = [pc EXCEPT ![p] = "failed"]
    /\ UNCHANGED <<otherVars, fileVars, lockHolder, protocolClient, argv, defaultApp,
                   newMasterKey, masterKey, tokenManager, readyScheduled,
                   mainWindow, eventVars, ipcVars>>

\* deriveMasterKey, new SecureTokenManager(derivedKey), and the check-auth
\* and logout handlers registered  (part_000:63-81)
InitAuth(p) ==
    /\ pc[p] = "initAuth"
    /\ tokenManager' = [tokenManager EXCEPT ![p] = TRUE]
    /\ pc' = [pc EXCEPT ![p] = "protocol"]
    /\ UNCHANGED <<otherVars, fileVars, lockHolder, protocolClient, argv, defaultApp,
                   newMasterKey, masterKey, readyScheduled, mainWindow,
                   eventVars, ipcVars>>

\* The registration without its development branch: only a packaged
\* application registers.
RegistersProtocolPackagedOnly(isDefaultApp, args) == ~isDefaultApp

\* The condition under which part_000:84-92 calls setAsDefaultProtocolClient.
RegistersProtocol(isDefaultApp, args) ==
    IF isDefaultApp THEN Len(args) >= 2 ELSE TRUE

\* setAsDefaultProtocolClient and app.whenReady().then(..)  (part_000:84-96)
RegisterProtocol(p) ==
    /\ pc[p] = "protocol"
    /\ protocolClient' = IF RegistersProtocol(defaultApp[p], argv[p])
                         THEN protocolClient \cup {p} ELSE protocolClient
    /\ readyScheduled' = [readyScheduled EXCEPT ![p] = TRUE]
    /\ pc' = [pc EXCEPT ![p] = "requestLock"]
    /\ UNCHANGED <<otherVars, fileVars, lockHolder, argv, defaultApp, newMasterKey,
                   masterKey, tokenManager, mainWindow, eventVars, ipcVars>>

\* A second-instance event as the lock holder receives it.
SecondInstanceEvent(n, from, commandLine) ==
    [seq |-> n, type |-> "second-instance", from |-> from, arg |-> commandLine]
OpenUrlEvent(n, url) ==
    [seq |-> n, type |-> "open-url", from |-> NoProc, arg |-> <<url>>]

\* The lock request without the branch on gotTheLock: the process goes on as
\* a Primary whether or not it holds the lock.
RequestSingleInstanceLockNoQuit(p) ==
    /\ pc[p] = "requestLock"
    /\ lockHolder' = IF lockHolder = NoProc THEN p ELSE lockHolder
    /\ pc' = [pc EXCEPT ![p] = "primary"]
    /\ IF lockHolder = NoProc
       THEN UNCHANGED <<queue, arrivals, forwardedTo>>
       ELSE /\ queue' = Append(queue,
                               SecondInstanceEvent(arrivals + 1, p, argv[p]))
            /\ arrivals' = arrivals + 1
            /\ forwardedTo' = [forwardedTo EXCEPT ![p] = lockHolder]
    /\ argv' = [argv EXCEPT ![p] = <<>>]
    /\ defaultApp' = [defaultApp EXCEPT ![p] = FALSE]
    /\ UNCHANGED <<otherVars, fileVars, protocolClient, newMasterKey,
                   masterKey, tokenManager, readyScheduled, mainWindow, last,
                   handled, ipcVars>>

\* app.requestSingleInstanceLock() and the branch on gotTheLock
\* (part_000:99-119).  The lock is granted when no process holds it;
\* otherwise the OS hands this launch's command line to the holder as a
\* second-instance event and the process quits.  The main script does not
\* read process.argv or process.defaultApp past this point: they are
\* forgotten here.
RequestSingleInstanceLock(p) ==
    /\ pc[p] = "requestLock"
    /\ IF lockHolder = NoProc
       THEN /\ lockHolder' = p
            /\ pc' = [pc EXCEPT ![p] = "primary"]
            /\ UNCHANGED <<queue, arrivals, forwardedTo>>
       ELSE /\ queue' = Append(queue,
                               SecondInstanceEvent(arrivals + 1, p, argv[p]))
            /\ arrivals' = arrivals + 1
            /\ forwardedTo' = [forwardedTo EXCEPT ![p] = lockHolder]
            /\ pc' = [pc EXCEPT ![p] = "quit"]
            /\ UNCHANGED lockHolder
    /\ argv' = [argv EXCEPT ![p] = <<>>]
    /\ defaultApp' = [defaultApp EXCEPT ![p] = FALSE]
    /\ UNCHANGED <<otherVars, fileVars, protocolClient, newMasterKey,
                   masterKey, tokenManager, readyScheduled, mainWindow, last,
                   handled, ipcVars>>

\* The whenReady continuation: initWindow()  (part_000:31-40, 94-96)
InitWindow(p) ==
    /\ pc[p] = "primary"
    /\ readyScheduled[p]
    /\ ~mainWindow[p]
    /\ mainWindow' = [mainWindow EXCEPT ![p] = TRUE]
    /\ UNCHANGED <<otherVars, fileVars, lockHolder, protocolClient, pc, argv, defaultApp,
                   newMasterKey, masterKey, tokenManager, readyScheduled,
                   eventVars, ipcVars>>

\* window-all-closed: app.quit()  (part_000:42-47).  The lock is released
\* with the process, and the events not yet delivered to it are lost.
WindowAllClosed(p) ==
    /\ pc[p] = "primary"
    /\ mainWindow[p]
    /\ pc' = [pc EXCEPT ![p] = "quit"]
    /\ mainWindow' = [mainWindow EXCEPT ![p] = FALSE]
    /\ lockHolder' = NoProc
    /\ queue' = <<>>
    /\ UNCHANGED <<otherVars, fileVars, protocolClient, argv, defaultApp, newMasterKey,
                   masterKey, tokenManager, readyScheduled, arrivals, last,
                   handled, forwardedTo, ipcVars>>

\* ------------------------------------------------------ activation events
\* macOS hands a URL of the registered scheme to the running application:
\* an open-url event is emitted in the Primary.
OpenUrlArrives ==
    /\ lockHolder # NoProc
    /\ arrivals - Cardinality({p \in Procs : forwardedTo[p] # NoProc}) < MaxEvents
    /\ \E url \in Urls :
        queue' = Append(queue, OpenUrlEvent(arrivals + 1, url))
    /\ arrivals' = arrivals + 1
    /\ UNCHANGED <<otherVars, fileVars, lockHolder, protocolClient, procVars, last,
                   handled, forwardedTo, ipcVars>>

\* The event the Primary's event loop handles next: events are emitted in
\* the order they arrived.
NextEvent(q) == q[1]

\* commandLine.pop(): the last element, undefined for an empty array.
Pop(commandLine) ==
    IF Len(commandLine) = 0 THEN [kind |-> "undefined"]
    ELSE commandLine[Len(commandLine)]

\* The second-instance handler with the window restored and focused after
\* the callback handler returned: an exception of the handler leaves the
\* window as it was.
SecondInstanceStepsFocusLast(win, url, threw) ==
    <<"pop">>
        \o (IF Truthy(url) THEN <<"parseAuthDataFromUrl">> ELSE <<"showErrorBox">>)
        \o (IF win /\ threw = None THEN <<"focus">> ELSE <<>>)

\* The calls of the second-instance handler, in order (part_000:105-117):
\* the window, when there is one, is restored and focused; then the last
\* argument is taken; then it goes to the callback handler or the dialog is
\* shown.
SecondInstanceSteps(win, url, threw) ==
    (IF win THEN <<"focus">> ELSE <<>>)
        \o <<"pop">>
        \o (IF Truthy(url) THEN <<"parseAuthDataFromUrl">> ELSE <<"showErrorBox">>)

\* The calls of the open-url handler (part_000:122-125).
OpenUrlSteps == <<"parseAuthDataFromUrl">>

\* The record kept of one handling.
Handling(ev, p, out) ==
    [seq |-> ev.seq, by |-> p, via |-> ev.type, arg |-> Pop(ev.arg),
     dialog |-> out.dialog, threw |-> out.threw, reload |-> out.reload,
     wroteProfile |-> out.wroteProfile, attempts |-> out.attempts,
     steps |-> IF ev.type = "second-instance"
               THEN SecondInstanceSteps(mainWindow[p], Pop(ev.arg), out.threw)
               ELSE OpenUrlSteps]

\* TRUE when the handling stored an idToken.
StoredIdToken(out) ==
    \E i \in 1..Len(out.attempts) :
        out.attempts[i].name = "idToken" /\ out.attempts[i].ok

\* The state one handling of event ev by process p leaves, out being what
\* the handler did.
Handle(p, ev, out) ==
    /\ profile' = out.profile
    /\ vault' = out.vault
    /\ last' = Handling(ev, p, out)
    /\ queue' = Tail(queue)
    /\ loggedOut' = (loggedOut /\ ~StoredIdToken(out))
    /\ UNCHANGED <<otherVars, keyFile, lockHolder, protocolClient, procVars, arrivals,
                   forwardedTo, reply, pendingUnlink>>

\* app.on("second-instance", (_, commandLine) => ..)  (part_000:104-118)
SecondInstance(p) ==
    /\ pc[p] = "primary"
    /\ queue # <<>>
    /\ LET ev == NextEvent(queue)
           url == Pop(ev.arg)
       IN  /\ ev.type = "second-instance"
           /\ handled' = [handled EXCEPT ![ev.from] = @ + 1]
           /\ IF Truthy(url)
              THEN \E env \in Envs(url) :
                      Handle(p, ev, ParseAuthDataFromUrl(url, profile, vault,
                                                         mainWindow[p], env))
              ELSE Handle(p, ev, ShowErrorBox(profile, vault))

\* app.on("open-url", (event, url) => ..)  (part_000:122-125)
OpenUrl(p) ==
    /\ pc[p] = "primary"
    /\ queue # <<>>
    /\ LET ev == NextEvent(queue)
       IN  /\ ev.type = "open-url"
           /\ UNCHANGED handled
           /\ \E env \in Envs(Pop(ev.arg)) :
                Handle(p, ev, ParseAuthDataFromUrl(Pop(ev.arg), profile, vault,
                                                   mainWindow[p], env))

\* ------------------------------------------------------------ ipcMain
\* ipcMain.handle("check-auth")  (part_000:67-70), invoked by the renderer.
CheckAuth(p) ==
    /\ pc[p] = "primary"
    /\ mainWindow[p]
    /\ reply' = [op |-> "check-auth", value |-> HasToken(vault, "idToken"),
                 vaultThrew |-> FALSE]
    /\ UNCHANGED <<otherVars, fileVars, lockHolder, protocolClient, procVars, eventVars,
                   pendingUnlink, loggedOut>>

\* The logout handler with a synchronous removal of the profile file: a file
\* that is absent makes fs.unlinkSync throw, and the catch block answers
\* false without clearing the vault.
LogoutUnlinkSync(p) ==
    /\ pc[p] = "primary"
    /\ mainWindow[p]
    /\ pendingUnlink < MaxPending
    /\ pendingUnlink' = pendingUnlink + 1
    /\ profile' = NoProfile
    /\ IF profile = NoProfile
       THEN /\ reply' = [op |-> "logout", value |-> FALSE, vaultThrew |-> FALSE]
            /\ UNCHANGED <<vault, loggedOut>>
       ELSE \E fails \in SUBSET {n \in Names : HasToken(vault, n)},
               threw \in BOOLEAN :
                /\ vault' = ClearAllTokens(vault, fails)
                /\ reply' = [op |-> "logout", value |-> ~threw,
                             vaultThrew |-> threw]
                /\ loggedOut' = ~threw
    /\ UNCHANGED <<otherVars, keyFile, lockHolder, protocolClient, procVars,
                   eventVars>>

\* ipcMain.handle("logout")  (part_000:72-81): fs.unlink is started and its
\* result ignored, then clearAllTokens runs.  fails are the entries whose
\* deletion fails; threw tells whether clearAllTokens throws, which the
\* catch block turns into the answer false.
Logout(p) ==
    /\ pc[p] = "primary"
    /\ mainWindow[p]
    /\ pendingUnlink < MaxPending
    /\ pendingUnlink' = pendingUnlink + 1
    /\ \E fails \in SUBSET {n \in Names : HasToken(vault, n)}, threw \in BOOLEAN :
        /\ vault' = ClearAllTokens(vault, fails)
        /\ reply' = [op |-> "logout", value |-> ~threw, vaultThrew |-> threw]
        /\ loggedOut' = ~threw
    /\ UNCHANGED <<otherVars, keyFile, profile, lockHolder, protocolClient, procVars,
                   eventVars>>

\* The fs.unlink of a logout completes: user-info.json is removed, or the
\* removal fails (the file is absent, or an I/O error) and the empty
\* callback drops the error  (part_000:74).
UnlinkCompletes ==
    /\ pendingUnlink > 0
    /\ pendingUnlink' = pendingUnlink - 1
    /\ \E ok \in BOOLEAN :
        profile' = IF ok THEN NoProfile ELSE profile
    /\ UNCHANGED <<otherVars, keyFile, vault, lockHolder, protocolClient, procVars,
                   eventVars, reply, loggedOut>>

\* ------------------------------------------------------- specifications
\* The launches of the application: the main script of every process, the
\* single-instance lock and the second-instance events it produces.
Next ==
    \/ \E p \in Procs : Launch(p)
    \/ \E p \in Procs : ExistsSync(p)
    \/ \E p \in Procs : ReadFileSync(p)
    \/ \E p \in Procs : Generate(p)
    \/ \E p \in Procs : WriteFileSync(p)
    \/ \E p \in Procs : KeyStorageError(p)
    \/ \E p \in Procs : InitAuth(p)
    \/ \E p \in Procs : RegisterProtocol(p)
    \/ \E p \in Procs : RequestSingleInstanceLock(p)
    \/ \E p \in Procs : InitWindow(p)
    \/ \E p \in Procs : WindowAllClosed(p)
    \/ \E p \in Procs : SecondInstance(p)

Spec == Init /\ [][Next]_vars

\* A running application, packaged: process 1 went through its main script
\* alone, wrote the key file and holds the lock; process 2 was launched after
\* it and has run its main script up to the lock request.
Primary == 1
Second == 2
InitRunning ==
    /\ keyFile = GenerateMasterKey(Primary)
    /\ vault = EmptyVault
    /\ profile = NoProfile
    /\ lockHolder = Primary
    /\ pc = [p \in Procs |-> IF p = Primary THEN "primary"
                             ELSE IF p = Second THEN "requestLock"
                             ELSE "notStarted"]
    /\ \E l \in {x \in Launches : ~x.defaultApp} :
        /\ argv = [p \in Procs |-> IF p = Second THEN l.argv ELSE <<>>]
        /\ defaultApp = [p \in Procs |-> p = Second /\ l.defaultApp]
        /\ protocolClient =
             {Primary} \cup (IF RegistersProtocol(l.defaultApp, l.argv)
                             THEN {Second} ELSE {})
    /\ newMasterKey = [p \in Procs |-> NoKey]
    /\ masterKey = [p \in Procs |-> IF p \in {Primary, Second}
                                    THEN GenerateMasterKey(Primary) ELSE NoKey]
    /\ tokenManager = [p \in Procs |-> p \in {Primary, Second}]
    /\ readyScheduled = [p \in Procs |-> p \in {Primary, Second}]
    /\ mainWindow = [p \in Procs |-> FALSE]
    /\ queue = <<>>
    /\ arrivals = 0
    /\ last = NoOutcome
    /\ handled = [p \in Procs |-> 0]
    /\ forwardedTo = [p \in Procs |-> NoProc]
    /\ reply = NoReply
    /\ pendingUnlink = 0
    /\ loggedOut = FALSE
    /\ callback = NoCallback
    /\ handoff = NoHandoff
    /\ RendererIdle

\* The events of a running application: deep links arriving through a second
\* launch or through open-url, and the renderer's check-auth and logout.
NextAuth ==
    \/ \E p \in Procs : RequestSingleInstanceLock(p)
    \/ \E p \in Procs : InitWindow(p)
    \/ OpenUrlArrives
    \/ \E p \in Procs : SecondInstance(p)
    \/ \E p \in Procs : OpenUrl(p)
    \/ \E p \in Procs : CheckAuth(p)
    \/ \E p \in Procs : Logout(p)
    \/ UnlinkCompletes

SpecAuth == InitRunning /\ [][NextAuth]_vars

\* The handler run on the characters of one callback URL.
HandoffText ==
    /\ ~handoff.done
    /\ handoff' = ParseAuthDataFromUrlText(callback.data)
    /\ UNCHANGED <<fileVars, lockHolder, protocolClient, procVars, eventVars,
                   ipcVars, callback, rendererVars>>

\* One callback URL of the shape the sender builds, carrying any two values,
\* and the handler run on it.
InitCodec ==
    /\ NothingStarted
    /\ \E d \in Values, t \in Values : callback = CallbackUrl(d, t)
    /\ handoff = NoHandoff
    /\ RendererIdle
NextCodec == HandoffText
SpecCodec == InitCodec /\ [][NextCodec]_vars

\* The renderer's model settings: a provider constructed with a valid
\* provider id and any model id (the stored ones or the defaults), its mount,
\* and then selections, refreshes and answers of the fetches in any order.
InitOllama ==
    /\ NothingStarted
    /\ callback = NoCallback
    /\ handoff = NoHandoff
    /\ NotMounted
    /\ selectedProviderId \in ProviderIds
    /\ selectedModelId \in ModelIds \ {""}
NextOllama ==
    \/ Mount
    \/ RefreshOllamaModels
    \/ FetchOllamaModelsCompletes
    \/ \E providerId \in ProviderIds \cup InheritedNames \cup {UnknownProvider} :
          SetSelectedProvider(providerId)
    \/ \E modelId \in ModelIds : SetSelectedModel(modelId)
SpecOllama == InitOllama /\ [][NextOllama]_vars

\* ------------------------------------------------------------------ claims
\* The handler was run on a string that is no URI.
NotAUri(arg) == arg.kind = "nonuri"
\* ... on a URI without a `data` parameter.
NoDataParam(arg) == arg.kind = "uri" /\ arg.data.kind = "noparam"
\* ... on a URI whose `data` value is not valid JSON: empty, not decodable,
\* or decoding to a text JSON.parse rejects.
DataNotJson(arg) ==
    /\ arg.kind = "uri"
    /\ \/ arg.data.kind = "empty"
       \/ arg.data.kind = "text"
            /\ (arg.data.escapes = "malformed" \/ arg.data.json.kind = "invalid")
\* ... on a URI whose `data` value is JSON but no object.
DataNotObject(arg) ==
    /\ arg.kind = "uri"
    /\ arg.data.kind = "text"
    /\ arg.data.escapes = "ok"
    /\ arg.data.json.kind \in {"null", "scalar"}
MalformedCallback(arg) == NotAUri(arg) \/ NoDataParam(arg) \/ DataNotJson(arg)

\* A step in which a callback was handled.
Handled == last'.seq # last.seq

\* C1: a call of the callback handler on a non-URI string, on a URI without
\* a `data` parameter or on a URI whose `data` value is not valid JSON leaves
\* the vault entries and the profile file exactly as they were before it,
\* whatever state preceded the call.
C1_MalformedLeavesStateUnchanged ==
    [][(Handled /\ MalformedCallback(last'.arg))
         => (vault' = vault /\ profile' = profile)]_vars

\* C1 witness: the handler ran on a URI whose data is no JSON while a profile
\* and an idToken entry existed.
C1_Witness ==
    /\ last.seq > 0
    /\ last.arg.kind = "uri"
    /\ last.arg.data.kind = "text"
    /\ last.arg.data.json.kind = "invalid"
    /\ last.threw = "SyntaxError"
    /\ profile # NoProfile
    /\ HasToken(vault, "idToken")

\* C2: every failure to parse or validate a callback (no URI, no `data`
\* parameter, `data` no JSON, JSON that is no object) ends with the generic
\* error dialog shown and the handler returning normally: no exception
\* escapes parseAuthDataFromUrl into the event handler.
C2_ParseFailureShowsDialog ==
    (last.seq > 0
        /\ (MalformedCallback(last.arg) \/ DataNotObject(last.arg)))
    => (last.dialog /\ last.threw = None)

\* The events of launch b waiting in the lock holder's queue.
EventsFrom(b) ==
    Cardinality({i \in 1..Len(queue) : queue[i].from = b})

\* C3: a launch that finds the lock held never writes the vault or the
\* profile (every handling is run by the process holding the lock, which is
\* not the launch the command line came from), and the lock holder runs the
\* callback handler on that launch's command line exactly once: never
\* twice, and once the event has left the holder's queue, once.
C3_HandoffExactlyOnce ==
    /\ [](\A b \in Procs :
            /\ handled[b] <= 1
            /\ (forwardedTo[b] # NoProc /\ pc[forwardedTo[b]] = "primary")
                 => (/\ pc[b] = "quit"
                     /\ handled[b] + EventsFrom(b) = 1))
    /\ [][Handled => (/\ last'.by = lockHolder
                      /\ pc[last'.by] = "primary"
                      /\ forwardedTo[last'.by] = NoProc)]_vars

\* C3 witness: a second launch carrying a callback URL has quit, and the lock
\* holder ran the handler on that URL once and stored its tokens.
C3_Witness ==
    \E b \in Procs :
        /\ forwardedTo[b] # NoProc
        /\ pc[b] = "quit"
        /\ handled[b] = 1
        /\ last.by = forwardedTo[b]
        /\ last.via = "second-instance"
        /\ last.arg.kind = "uri"
        /\ HasToken(vault, "idToken")

\* C4: the lock decision precedes any access to persistent auth state: a
\* process that does not acquire the lock has not read or created the
\* master-key file, constructed the vault, registered itself as protocol
\* handler or scheduled window creation.
C4_SecondaryHasNoSideEffects ==
    \A p \in Procs :
        forwardedTo[p] # NoProc
            => (/\ masterKey[p] = NoKey
                /\ ~tokenManager[p]
                /\ p \notin protocolClient
                /\ ~readyScheduled[p])

\* Process p is inside getPersistentMasterKey.
InGetPersistentMasterKey(p) ==
    pc[p] \in {"existsSync", "readFileSync", "generate", "writeFileSync"}

\* C5: concurrent first-run calls of getPersistentMasterKey never create two
\* different master keys: once no call is in progress, every caller has
\* returned the same key, the content of the key file.
C5_OneMasterKey ==
    (\A p \in Procs : ~InGetPersistentMasterKey(p))
        => \A p \in Procs : masterKey[p] # NoKey => masterKey[p] = keyFile

\* The names of the storeToken calls of the latest handling.
Attempted == {last.attempts[i].name : i \in 1..Len(last.attempts)}

\* C6: the three secret stores of one handoff are independent: when a
\* storeToken fails, the handler still attempts storeToken for each of the
\* other secret fields the payload holds.
C6_StoresAreIndependent ==
    last.wroteProfile
        => \A n \in Names :
             Field(last.arg.data.json, n) # Undefined => n \in Attempted

\* C7: storeToken is called only for the secret fields the payload holds: no
\* store is attempted for an omitted field, and no undefined value is passed
\* to the vault.
C7_OnlyPresentFieldsStored ==
    \A i \in 1..Len(last.attempts) : last.attempts[i].value # Undefined

\* C8: after logout answered true, check-auth answers false until the next
\* handoff stores an idToken.
C8_NoAuthAfterLogout ==
    (loggedOut /\ reply.op = "check-auth") => reply.value = FALSE

\* C9: logout answers true only on success: when it answers true the profile
\* file is gone and no vault entry is left.
C9_LogoutTrueMeansCleared ==
    [][(pendingUnlink' = pendingUnlink + 1
          /\ reply'.op = "logout" /\ reply'.value)
        => (profile' = NoProfile /\ vault' = EmptyVault)]_vars

\* The JSON value the handler read from the callback it was run on.
AuthDataOf(arg) == arg.data.json
\* The names whose storeToken call of the handling h succeeded.
Stored(h) == {h.attempts[i].name : i \in {j \in 1..Len(h.attempts) : h.attempts[j].ok}}

\* C10 as stated: callbacks are handled one at a time in arrival order, so
\* after a callback that follows an earlier one (both having written their
\* profile) the profile and the vault entries are those of the later
\* callback, never a mixture of both.
C10_LaterCallbackWins ==
    [][(Handled /\ last.wroteProfile /\ last'.wroteProfile
          /\ last'.arg.data.json.kind = "object")
        => (/\ profile' = ProfileFile(UserInfo(AuthDataOf(last'.arg)))
            /\ \A n \in Names : vault'[n] = Field(AuthDataOf(last'.arg), n))]_vars

\* C10 amended: callbacks are handled one at a time in arrival order (the
\* callback handled is older than every callback still waiting, and newer
\* than the one handled before it), and a handling changes the profile and
\* the vault all at once: the profile is the later callback's when its
\* profile write was reached and succeeded, a vault entry holds the later
\* callback's value when its storeToken call succeeded, and every other
\* entry, and the profile otherwise, keep what the earlier handling left.
C10_OneAtATimeInArrivalOrder ==
    [][Handled
        => (/\ last'.seq > last.seq
            /\ \A i \in 1..Len(queue') : queue'[i].seq > last'.seq
            /\ profile' = IF last'.wroteProfile
                          THEN ProfileFile(UserInfo(AuthDataOf(last'.arg)))
                          ELSE profile
            /\ \A n \in Names :
                vault'[n] = IF n \in Stored(last')
                            THEN Field(AuthDataOf(last'.arg), n)
                            ELSE vault[n])]_vars

\* C10 witness: a second callback was handled after a first; its profile
\* write and its idToken store succeeded, its refreshToken store failed and
\* left the entry of the first callback: a mixture of both.
C10_Witness ==
    /\ last.seq >= 2
    /\ last.wroteProfile
    /\ profile = ProfileFile(UserInfo(AuthDataOf(last.arg)))
    /\ Stored(last) = {"idToken"}
    /\ vault["idToken"] = "b"
    /\ vault["refreshToken"] = "a"

\* C11: the master key is create-once: getPersistentMasterKey writes the key
\* file only when it does not exist and never rewrites an existing one, so
\* the key file, once created, holds the key of the first run for good.
C11_KeyFileNeverRewritten ==
    [][keyFile # NoKey => keyFile' = keyFile]_vars

\* Process p has started a part of the auth subsystem: the vault and the
\* check-auth / logout handlers (registered with it, part_000:64-81), the
\* protocol registration, the window, the lock request, a callback handling.
AuthStarted(p) ==
    \/ tokenManager[p]
    \/ p \in protocolClient
    \/ readyScheduled[p]
    \/ mainWindow[p]
    \/ lockHolder = p
    \/ forwardedTo[p] # NoProc
    \/ last.by = p

\* C12: when the key directory cannot be created or the key file cannot be
\* read or written, getPersistentMasterKey raises an error and returns no
\* key, and that process never starts its auth subsystem: no vault and no
\* check-auth / logout handler, no lock request, no callback handled.  A
\* process starts any of these only with the key the call returned.
C12_KeyFailureStopsAuth ==
    /\ [](\A p \in Procs :
            /\ pc[p] = "failed" => (masterKey[p] = NoKey /\ ~AuthStarted(p))
            /\ AuthStarted(p) => masterKey[p] # NoKey)
    /\ [][\A p \in Procs : pc[p] = "failed" => pc'[p] = "failed"]_vars

\* C12 witness: a start failed on a key file that exists (it could not be
\* read) while another process of the application holds the lock.
C12_Witness ==
    \E p \in Procs :
        /\ pc[p] = "failed"
        /\ keyFile # NoKey
        /\ lockHolder \notin {NoProc, p}

\* C13 as stated: in every launch, packaged or development and whatever the
\* length of process.argv, the application is registered as the default
\* handler of its scheme by the time its main script requests the lock,
\* which is before the ready point and before any callback is handled.
C13_EveryLaunchRegisters ==
    \A p \in Procs : pc[p] \in {"requestLock", "primary"} => p \in protocolClient

\* C13 amended: a launch whose main script reaches the registration
\* registers the application when it is packaged, or in development when
\* process.argv has at least two elements, and not otherwise; the
\* registration is made in the main script only, before the window is created
\* and before that process handles a callback, and it is never withdrawn;
\* a window exists and a callback is handled only past the registration.
C13_RegisteredUnlessDevWithoutArgv ==
    /\ [](\A p \in Procs :
            /\ pc[p] = "requestLock"
                 => (p \in protocolClient
                       <=> (~defaultApp[p] \/ Len(argv[p]) >= 2))
            /\ (mainWindow[p] \/ last.by = p) => pc[p] \in {"primary", "quit"})
    /\ [][\A p \in Procs :
            /\ p \in protocolClient => p \in protocolClient'
            /\ (p \in protocolClient' /\ p \notin protocolClient)
                 => (pc[p] = "protocol" /\ ~mainWindow[p] /\ last.by # p)]_vars

\* C13 witness: a development launch with process.argv of length one went
\* through its main script, holds the lock and has created its window,
\* without being registered as the handler of the scheme.
C13_Witness ==
    \E p \in Procs :
        /\ pc[p] = "primary"
        /\ mainWindow[p]
        /\ p \notin protocolClient

\* C14: for every callback URL whose data parameter is the URL-encoding of a
\* JSON object with displayName D and idToken T, whatever characters D and T
\* hold, the handler writes D as the profile's displayName and stores T as
\* the idToken.
C14_HandoffStoresWhatWasSent ==
    handoff.done
        => (/\ handoff.threw = None
            /\ handoff.stored
            /\ handoff.displayName = callback.displayName
            /\ handoff.idToken = callback.idToken)

\* C15: logout is idempotent.  Invoked when no profile file and no vault
\* entry exists, it is not an error: the answer is true (unless the vault's
\* clearAllTokens itself throws, which the absence of entries does not
\* cause), no entry and no profile appears, and the removal of the absent
\* profile file, when it completes, fails silently and changes nothing.
C15_LogoutIdempotent ==
    /\ [][(pendingUnlink' = pendingUnlink + 1
             /\ profile = NoProfile /\ vault = EmptyVault)
           => (/\ reply'.op = "logout"
               /\ ~reply'.vaultThrew => reply'.value
               /\ vault' = EmptyVault
               /\ profile' = NoProfile)]_vars
    /\ [][(pendingUnlink' = pendingUnlink - 1 /\ profile = NoProfile)
           => (profile' = NoProfile /\ vault' = vault /\ reply' = reply)]_vars

\* C15 witness: logout answered true in an application that never handled a
\* callback, so with no profile and no entry; its removal of the profile
\* file has completed, and still no profile and no entry exists.
C15_Witness ==
    /\ last.seq = 0
    /\ reply.op = "logout"
    /\ reply.value
    /\ loggedOut
    /\ pendingUnlink = 0
    /\ profile = NoProfile
    /\ vault = EmptyVault

\* The handling h wrote the profile and each of its three storeToken calls
\* succeeded.
FullSuccess(h) ==
    /\ h.wroteProfile
    /\ Len(h.attempts) = Len(TokenNames)
    /\ \A i \in 1..Len(h.attempts) : h.attempts[i].ok

\* C16 as stated: the reload of the window is issued for every fully
\* successful handoff (profile written, all stores succeeded) and for no
\* other handling.
C16_ReloadIffFullSuccess ==
    last.seq > 0 => (last.reload <=> FullSuccess(last))

\* C16 amended: a handling issues the reload exactly when its profile write
\* and all its stores succeeded and the handling process has a main window;
\* a fully successful handoff handled before the window is created issues
\* none, and so does every malformed callback and every handoff with a
\* failed store.
C16_ReloadIffFullSuccessAndWindow ==
    [][Handled
        => (last'.reload <=> (FullSuccess(last') /\ mainWindow[last'.by]))]_vars

\* C16 witness: a handoff was fully successful in a process that had not
\* created its window yet, and no reload was issued.
C16_Witness ==
    /\ last.seq > 0
    /\ FullSuccess(last)
    /\ ~last.reload
    /\ HasToken(vault, "idToken")

\* The position of a call among the calls of the latest handling, 0 when it
\* was not made.
StepAt(h, call) ==
    IF \E i \in 1..Len(h.steps) : h.steps[i] = call
    THEN CHOOSE i \in 1..Len(h.steps) : h.steps[i] = call
    ELSE 0

\* C17 as stated: on a second-instance event the Primary takes the last
\* argument, forwards it to the callback handler and then restores and
\* focuses the window, in that order.
C17_ForwardThenFocus ==
    (last.via = "second-instance" /\ StepAt(last, "focus") > 0)
        => /\ StepAt(last, "pop") < StepAt(last, "focus")
           /\ StepAt(last, "parseAuthDataFromUrl") < StepAt(last, "focus")

\* C17 amended: on a second-instance event the Primary first restores and
\* focuses its window, when it has one, then takes the last argument of the
\* command line, then forwards it to the callback handler; when there is no
\* last argument (none, or an empty string) it shows the generic dialog
\* instead and changes neither the vault nor the profile.
C17_FocusThenForward ==
    [][(Handled /\ last'.via = "second-instance")
        => (/\ StepAt(last', "focus") = (IF mainWindow[last'.by] THEN 1 ELSE 0)
            /\ StepAt(last', "pop") = StepAt(last', "focus") + 1
            /\ Len(last'.steps) = StepAt(last', "pop") + 1
            /\ IF Truthy(last'.arg)
               THEN StepAt(last', "parseAuthDataFromUrl") = Len(last'.steps)
               ELSE /\ StepAt(last', "showErrorBox") = Len(last'.steps)
                    /\ last'.dialog
                    /\ vault' = vault
                    /\ profile' = profile)]_vars

\* C17 witness: a second-instance event whose command line ends with an
\* empty argument was handled in a Primary with a window, profile and
\* idToken: the window was focused, the dialog shown, and both are kept.
C17_Witness ==
    /\ last.via = "second-instance"
    /\ last.steps = <<"focus", "pop", "showErrorBox">>
    /\ last.dialog
    /\ profile # NoProfile
    /\ HasToken(vault, "idToken")

\* C18: between events, and with no removal of the profile file still in
\* flight, the profile file exists only if the vault holds an idToken entry:
\* a handoff without idToken or whose idToken store fails leaves no profile.
C18_ProfileImpliesIdToken ==
    (pendingUnlink = 0 /\ profile # NoProfile) => HasToken(vault, "idToken")

\* C19: the removal of the profile file that a logout started never takes
\* effect after the profile write of a later handoff.  When the latest
\* answer is that of a successful logout and an idToken was stored since
\* by a fully successful handoff (it came after the logout and wrote the
\* profile that exists), the completion of a pending removal leaves that
\* profile in place.
C19_UnlinkNeverRemovesLaterProfile ==
    [][(/\ pendingUnlink' = pendingUnlink - 1
        /\ reply.op = "logout"
        /\ reply.value
        /\ ~loggedOut
        /\ FullSuccess(last)
        /\ profile # NoProfile)
       => profile' = profile]_vars

\* C20: under overlapping fetchOllamaModels calls that each succeed or fail,
\* once all of them have completed isLoadingOllamaModels is false and
\* ollamaError is non-null only if ollamaModels is empty: the model name
\* shown for Ollama is never the error text while models are listed.
C20_OllamaStateConsistent ==
    (mounted /\ fetches = <<>>)
        => (/\ ~isLoadingOllamaModels
            /\ ollamaError # NullError => ollamaModels = <<>>
            /\ (selectedProviderId = "ollama"
                   /\ GetCurrentModelName = "Error loading models")
                 => ollamaModels = <<>>)

\* The first available model of a provider, "" when it has none.
FirstAvailableModel(providerId) ==
    IF GetAvailableModels(providerId) # <<>>
    THEN GetAvailableModels(providerId)[1] ELSE ""

\* C21: after any sequence of setSelectedProvider, setSelectedModel and
\* fetch completions the selected provider is a key of MODEL_PROVIDERS;
\* setSelectedProvider with an id that is no key changes neither the selected
\* provider nor the selected model, and with a key it selects that provider
\* and its first available model, or "" when it has none.
C21_SelectedProviderIsKey ==
    /\ [](selectedProviderId \in ProviderIds)
    /\ [][\A providerId \in ProviderIds \cup InheritedNames \cup {UnknownProvider} :
            SetSelectedProvider(providerId)
                => IF providerId \in ProviderIds
                   THEN /\ selectedProviderId' = providerId
                        /\ selectedModelId' = FirstAvailableModel(providerId)
                   ELSE UNCHANGED selectionVars]_vars

====
